---------------------------- MODULE Spec2Model ----------------------------
(***************************************************************************)
(* Model of the two notebooks of Econ/Wk3_FirmDyn/Notebooks:               *)
(*   DeterministicFirmVFI.ipynb  value-function iteration for the firm     *)
(*   ApproxAR.ipynb              sim_markov, the Markov-chain simulator    *)
(* Python floats are modelled as exact rationals <<numerator, denominator>>*)
(* in lowest terms with a positive denominator, so that sums, products and *)
(* comparisons are the ones the code computes, without rounding; SpecFloat *)
(* runs the value-function loop with every result rounded.  Arrays keep    *)
(* the source's 0-based indices: a vector is a function on 0..n-1.         *)
(***************************************************************************)
EXTENDS Integers, Sequences, FiniteSets, TLC

(***************************************************************************)
(* Bounds of the model.                                                    *)
(***************************************************************************)
\* largest VFmaxiter explored
MaxIterCap == 4
\* binary digits kept after the point by a fractional power
PowBits == 4
\* largest grid size the search for numb considers
GridCap == 6
\* VFmaxiter of the runs that compare two initial guesses
GuessIterCap == 8
\* largest num_draws passed to sim_markov
DrawsCap == 3

(***************************************************************************)
(* Exact rational arithmetic.                                              *)
(***************************************************************************)
Abs(x) == IF x < 0 THEN -x ELSE x

RECURSIVE GCD(_, _)
GCD(a, b) == IF b = 0 THEN a ELSE GCD(b, a % b)

Rat(n, d) == LET g == GCD(Abs(n), d) IN <<n \div g, d \div g>>

Zero == <<0, 1>>
One == <<1, 1>>
Two == <<2, 1>>

LCM(a, b) == (a \div GCD(a, b)) * b

\* sums and comparisons over the least common denominator, products with the
\* common factors cancelled first, to keep the intermediate integers small
RAdd(a, b) ==
    LET l == LCM(a[2], b[2])
    IN Rat(a[1] * (l \div a[2]) + b[1] * (l \div b[2]), l)
RNeg(a) == <<-a[1], a[2]>>
RSub(a, b) == RAdd(a, RNeg(b))
RMul(a, b) ==
    LET g1 == GCD(Abs(a[1]), b[2])
        g2 == GCD(Abs(b[1]), a[2])
    IN Rat((a[1] \div g1) * (b[1] \div g2), (a[2] \div g2) * (b[2] \div g1))
RInv(a) == IF a[1] > 0 THEN <<a[2], a[1]>> ELSE <<-a[2], -a[1]>>
RDiv(a, b) == RMul(a, RInv(b))
RLt(a, b) ==
    LET l == LCM(a[2], b[2])
    IN a[1] * (l \div a[2]) < b[1] * (l \div b[2])
RLe(a, b) == ~RLt(b, a)
RAbs(a) == <<Abs(a[1]), a[2]>>

RECURSIVE RPow(_, _)
RPow(a, n) == IF n = 0 THEN One ELSE RMul(a, RPow(a, n - 1))

\* x ** (1/n) for x >= 0, rounded as a float result is: the largest multiple
\* of 2^(-PowBits) whose n-th power does not exceed x
Root(x, n) ==
    LET prec == 2 ^ PowBits
        fits(m) == RLe(RPow(Rat(m, prec), n), x)
        m == CHOOSE c \in 0..(prec * 64) : fits(c) /\ ~fits(c + 1)
    IN Rat(m, prec)


\* x ** q for a rational exponent q = p/n: the n-th root, then the p-th power
Power(x, q) ==
    LET rt == IF q[2] = 1 THEN x ELSE Root(x, q[2])
    IN IF q[1] >= 0 THEN RPow(rt, q[1]) ELSE RInv(RPow(rt, -q[1]))

(***************************************************************************)
(* DeterministicFirmVFI.ipynb: parameters.  The output shares are fixed at *)
(* values for which the exponents of kstar are integers; the depreciation  *)
(* rate, adjustment cost, wage, interest rate, grid lower bound, tolerance *)
(* and iteration cap are inputs drawn from the sets below.                 *)
(***************************************************************************)
alpha_k == <<1, 4>>
alpha_l == <<1, 2>>
z == One
DeltaVals == {<<1, 2>>}
PsiVals == {<<0, 1>>, <<1, 1>>, <<16, 5>>}
\* pairs <<r, w>> of interest rate and wage
RWVals == {<< <<1, 1>>, <<1, 24>> >>, << <<1, 1>>, <<1, 12>> >>,
           << <<1, 3>>, <<3, 20>> >>, << <<1, 3>>, <<3, 40>> >>}
LbVals == {<<1, 2>>, <<1, 4>>}
TolVals == {<<1, 8>>, <<1, 1>>, <<8, 1>>}

VARIABLES
    delta, psi, betafirm,   \* parameters read by the later cells
    kvec, op, e,            \* capital grid, operating profits, cash flows
    VFtol, VFdist, VFmaxiter, VFiter,
    V, TV, Vmat, Vstore, PF,
    obj,                    \* the array each of the names V and TV is bound to
    report,                 \* the message the cell after the loop prints
    optK, optI,
    pc,                     \* position in the notebook
    \* a second run of the loop cell from another initial guess
    W, Wdist, Witer, pcW,
    \* ApproxAR.ipynb: one call of sim_markov
    site,                   \* the line of the call
    chain,                  \* the transition matrix the approximation returned
    z_grid, pi, num_draws,  \* the arguments of the call
    u, z_discrete, oldind, ind, sum_p,
    i_sim,                  \* the for loop's i
    pcS,
    run,                    \* 1 in the first call of sim_markov, 2 in a second
    first_u, first_path,    \* the draws and the path of the first call
    \* DeterministicFirmVFI.ipynb: the capital-grid cell run on its own
    given,                  \* alpha_k, alpha_l, delta, w and r as the cell reads them
    dens, kstar, lb_k, ub_k, numb, K,
    j_K,                    \* the for loop's j
    pcG,
    \* ApproxAR.ipynb: the Adda-Cooper transition-matrix cell
    ar,                     \* rho, mu, sigma_eps, sigma_z and N as the cell reads them
    piAC,                   \* the global pi the cell fills
    i_ac, j_ac,             \* the nested for loops' i and j
    pcA

vfiVars == <<delta, psi, betafirm, kvec, op, e, VFtol, VFdist, VFmaxiter, VFiter,
             V, TV, Vmat, Vstore, PF, obj, report, optK, optI, pc>>

guessVars == <<W, Wdist, Witer, pcW>>

simVars == <<site, chain, z_grid, pi, num_draws, u, z_discrete, oldind, ind,
             sum_p, i_sim, pcS, run, first_u, first_path>>

gridVars == <<given, dens, kstar, lb_k, ub_k, numb, K, j_K, pcG>>

acVars == <<ar, piAC, i_ac, j_ac, pcA>>

\* the value of an array name no cell has assigned yet
Unbound == <<>>

Betafirm(r) == RDiv(One, RAdd(One, r))

\* kstar as the grid cell computes it from the output shares ak and al
KstarOf(ak, al, bf, dl, wg) ==
    Power(RDiv(RMul(RAdd(RSub(RDiv(One, bf), One), dl),
                    Power(RDiv(wg, al), RDiv(al, RSub(One, al)))),
               RMul(ak, Power(z, RDiv(One, RSub(One, al))))),
          RDiv(RSub(One, al), RSub(RAdd(ak, al), One)))

Kstar(bf, dl, wg) == KstarOf(alpha_k, alpha_l, bf, dl, wg)

\* np.ceil(np.log(lb_k / ub_k) / np.log(1 - delta)): the least n with
\* (1 - delta)^n <= lb_k / ub_k
Numb(lb, ub, dl) ==
    LET reached(n) == RLe(RPow(RSub(One, dl), n), RDiv(lb, ub))
    IN CHOOSE n \in 0..GridCap :
          reached(n) /\ \A m \in 0..(n - 1) : ~reached(m)

\* mutant: the exponent is j, whatever the density
KEntryWholeSteps(ub, dl, dn, j) == RMul(ub, RPow(RSub(One, dl), j))

\* K[j] = ub_k * (1 - delta) ** (j / dens)
KEntry(ub, dl, dn, j) == RMul(ub, Power(RSub(One, dl), Rat(j, dn)))

\* mutant: the array is kept in the order it was filled
NotReversed(a) == a

\* a[::-1]
Reversed(a) ==
    LET n == Cardinality(DOMAIN a) IN [i \in 0..(n - 1) |-> a[n - 1 - i]]

\* the grid of the notebook, where dens = 1: kvec = K[::-1]
Kvec(lb, ub, dl) ==
    Reversed([j \in 0..(Numb(lb, ub, dl) - 1) |-> KEntry(ub, dl, 1, j)])

Sizek(kv) == Cardinality(DOMAIN kv)

Op(kv, wg) ==
    [i \in DOMAIN kv |->
        RMul(RMul(RSub(One, alpha_l),
                  Power(RDiv(alpha_l, wg), RDiv(alpha_l, RSub(One, alpha_l)))),
             Power(Power(kv[i], alpha_k), RDiv(One, RSub(One, alpha_l))))]

\* mutant: the adjustment cost is added to the cash flow instead of subtracted
CashFlowCostAdded(opv, kv, dl, ps, i, j) ==
    RAdd(RAdd(RSub(opv[i], kv[j]), RMul(RSub(One, dl), kv[i])),
         RDiv(RMul(RDiv(ps, Two),
                   RPow(RSub(kv[j], RMul(RSub(One, dl), kv[i])), 2)),
              kv[i]))

CashFlow(opv, kv, dl, ps, i, j) ==
    RSub(RAdd(RSub(opv[i], kv[j]), RMul(RSub(One, dl), kv[i])),
         RDiv(RMul(RDiv(ps, Two),
                   RPow(RSub(kv[j], RMul(RSub(One, dl), kv[i])), 2)),
              kv[i]))

E(opv, kv, dl, ps) ==
    [i \in DOMAIN kv |-> [j \in DOMAIN kv |-> CashFlow(opv, kv, dl, ps, i, j)]]

(***************************************************************************)
(* The Bellman update of one pass of the while loop.                       *)
(***************************************************************************)
\* mutant: the continuation value is not discounted
BellmanEntryUndiscounted(i, j, Vold) == RAdd(e[i][j], Vold[j])

BellmanEntry(i, j, Vold) == RAdd(e[i][j], RMul(betafirm, Vold[j]))

NewVmat(Vold) ==
    [i \in DOMAIN kvec |-> [j \in DOMAIN kvec |-> BellmanEntry(i, j, Vold)]]

\* np.argmax scans the row from index 0 and keeps the first largest entry
RECURSIVE ArgmaxFrom(_, _, _, _)
ArgmaxFrom(row, n, j, best) ==
    IF j >= n THEN best
    ELSE ArgmaxFrom(row, n, j + 1, IF RLt(row[best], row[j]) THEN j ELSE best)

\* mutant: a later entry equal to the best so far replaces it (last maximiser)
RECURSIVE ArgmaxLastFrom(_, _, _, _)
ArgmaxLastFrom(row, n, j, best) ==
    IF j >= n THEN best
    ELSE ArgmaxLastFrom(row, n, j + 1,
                        IF RLe(row[best], row[j]) THEN j ELSE best)

ArgmaxLast(row) == ArgmaxLastFrom(row, Cardinality(DOMAIN row), 1, 0)

Argmax(row) == ArgmaxFrom(row, Cardinality(DOMAIN row), 1, 0)

RECURSIVE MaxFrom(_, _, _, _)
MaxFrom(row, n, j, best) ==
    IF j >= n THEN best
    ELSE MaxFrom(row, n, j + 1, IF RLt(best, row[j]) THEN row[j] ELSE best)

RowMax(row) == MaxFrom(row, Cardinality(DOMAIN row), 1, row[0])

\* mutant: the largest signed difference, np.absolute left out
SupDistNoAbs(A, B) == RowMax([i \in DOMAIN A |-> RSub(A[i], B[i])])

SupDist(A, B) == RowMax([i \in DOMAIN A |-> RAbs(RSub(A[i], B[i]))])

WhileCond(dist, iter) == RLt(VFtol, dist) /\ iter < VFmaxiter

LoopCond == WhileCond(VFdist, VFiter)

\* mutant: the maximum is written into the array V already names (V[:] = ...)
SameArray(b) == b.V

\* Vmat.max(axis=1) returns a new array: one that neither V nor TV names
NewArray(b) == CHOOSE k \in 1..3 : k # b.V /\ k # b.TV

\* mutant: the history is indexed by the number of passes completed
StoreColumnFromZero == VFiter - 1

\* the column of Vstore a pass writes
StoreColumn == VFiter

\* the state after the cells above the loop, VFmaxiter drawn from maxiters
Setup(maxiters) ==
    /\ delta \in DeltaVals
    /\ psi \in PsiVals
    /\ \E rw \in RWVals, lb \in LbVals :
          /\ betafirm = Betafirm(rw[1])
          /\ kvec = Kvec(lb, RMul(Two, Kstar(betafirm, delta, rw[2])), delta)
          /\ op = Op(kvec, rw[2])
          /\ e = E(op, kvec, delta, psi)
    /\ VFtol \in TolVals
    /\ VFdist = <<7, 1>>
    /\ VFmaxiter \in maxiters
    /\ V = [i \in DOMAIN kvec |-> Zero]
    /\ Vmat = [i \in DOMAIN kvec |-> [j \in DOMAIN kvec |-> Zero]]
    /\ Vstore = [i \in DOMAIN kvec |-> [t \in 0..(VFmaxiter - 1) |-> Zero]]
    /\ VFiter = 1
    /\ TV = Unbound
    /\ PF = Unbound
    /\ obj = [V |-> 1, TV |-> 0]
    /\ report = "nothing printed"
    /\ optK = Unbound
    /\ optI = Unbound
    /\ pc = "while"

\* one pass of the while loop body; vmat is the matrix lines 285-287 compute
Pass(vmat) ==
    /\ pc = "while"
    /\ LoopCond
    /\ IF StoreColumn \in 0..(VFmaxiter - 1)
       THEN \* TV = V binds TV to the array V names; V = Vmat.max(axis=1) then
            \* binds V to the array the call returns.  The values seen through
            \* TV change only if that array is the one TV names.
            LET bound284 == [obj EXCEPT !.TV = obj.V]
                bound290 == [bound284 EXCEPT !.V = NewArray(bound284)]
            IN /\ Vmat' = vmat
               /\ Vstore' = [i \in DOMAIN kvec |->
                                [Vstore[i] EXCEPT ![StoreColumn] = V[i]]]
               /\ V' = [i \in DOMAIN kvec |-> RowMax(Vmat'[i])]
               /\ obj' = bound290
               /\ TV' = IF bound290.TV = bound290.V THEN V' ELSE V
               /\ PF' = [i \in DOMAIN kvec |-> Argmax(Vmat'[i])]
               /\ VFdist' = SupDist(V', TV')
               /\ VFiter' = VFiter + 1
               /\ pc' = pc
       ELSE \* Vstore[:, VFiter] is out of bounds
            /\ TV' = V
            /\ obj' = [obj EXCEPT !.TV = obj.V]
            /\ Vmat' = vmat
            /\ pc' = "IndexError"
            /\ UNCHANGED <<Vstore, V, PF, VFdist, VFiter>>
    /\ UNCHANGED <<delta, psi, betafirm, kvec, op, e, VFtol, VFmaxiter,
                   report, optK, optI>>

\* a pass computed without rounding
Iterate == Pass(NewVmat(V))

\* mutant: the report is decided by the distance instead of the pass counter
ReportedByDist == IF RLe(VFdist, VFtol) THEN "converged" ELSE "did not converge"

Reported == IF VFiter < VFmaxiter THEN "converged" ELSE "did not converge"

\* the loop condition fails: the report is printed and VF = V
Exit ==
    /\ pc = "while"
    /\ ~LoopCond
    /\ report' = Reported
    /\ pc' = "done"
    /\ UNCHANGED <<delta, psi, betafirm, kvec, op, e, VFtol, VFdist, VFmaxiter,
                   VFiter, V, TV, Vmat, Vstore, PF, obj, optK, optI>>

\* optK = kvec[PF]; optI = optK - (1 - delta) * kvec
Policy ==
    /\ pc = "done"
    /\ IF PF = Unbound
       THEN /\ pc' = "NameError"
            /\ UNCHANGED <<optK, optI>>
       ELSE /\ optK' = [i \in DOMAIN kvec |-> kvec[PF[i]]]
            /\ optI' = [i \in DOMAIN kvec |->
                           RSub(optK'[i], RMul(RSub(One, delta), kvec[i]))]
            /\ pc' = "end"
    /\ UNCHANGED <<delta, psi, betafirm, kvec, op, e, VFtol, VFdist, VFmaxiter,
                   VFiter, V, TV, Vmat, Vstore, PF, obj, report>>

vars == <<vfiVars, guessVars, simVars, gridVars, acVars>>

\* sim_markov is not called
SimIdle ==
    /\ site = "none" /\ chain = <<>> /\ z_grid = <<>> /\ pi = <<>>
    /\ num_draws = 0 /\ u = <<>> /\ z_discrete = <<>>
    /\ oldind = 0 /\ ind = 0 /\ sum_p = Zero /\ i_sim = 0
    /\ pcS = "not called"
    /\ run = 0 /\ first_u = <<>> /\ first_path = <<>>

\* the capital-grid cell is not run on its own
GridIdle ==
    /\ given = <<>> /\ dens = 1 /\ kstar = Zero /\ lb_k = Zero /\ ub_k = Zero
    /\ numb = 0 /\ K = <<>> /\ j_K = 0
    /\ pcG = "not run"

\* the Adda-Cooper cell is not run
ACIdle ==
    /\ ar = <<>> /\ piAC = <<>> /\ i_ac = 0 /\ j_ac = 0
    /\ pcA = "not run"

\* the value-function notebook is not run
VFIIdle ==
    /\ delta = Zero /\ psi = Zero /\ betafirm = Zero
    /\ kvec = <<>> /\ op = <<>> /\ e = <<>>
    /\ VFtol = Zero /\ VFdist = <<7, 1>> /\ VFmaxiter = 0 /\ VFiter = 1
    /\ V = <<>> /\ TV = <<>> /\ Vmat = <<>> /\ Vstore = <<>> /\ PF = <<>>
    /\ obj = [V |-> 0, TV |-> 0]
    /\ report = "nothing printed" /\ optK = <<>> /\ optI = <<>>
    /\ pc = "not run"
    /\ W = <<>> /\ Wdist = <<7, 1>> /\ Witer = 1 /\ pcW = "not run"

\* the notebook as written: the guess is the vector of zeros and there is no
\* second run
Init ==
    /\ Setup(0..MaxIterCap)
    /\ W = Unbound
    /\ Wdist = <<7, 1>>
    /\ Witer = 1
    /\ pcW = "not run"
    /\ SimIdle
    /\ GridIdle
    /\ ACIdle

Next ==
    \/ Iterate /\ UNCHANGED <<guessVars, simVars, gridVars, acVars>>
    \/ Exit /\ UNCHANGED <<guessVars, simVars, gridVars, acVars>>
    \/ Policy /\ UNCHANGED <<guessVars, simVars, gridVars, acVars>>

Spec == Init /\ [][Next]_vars

(***************************************************************************)
(* The same loop in machine arithmetic.  A Python float has finitely many  *)
(* digits: every stored number and every result of + and * is the nearest  *)
(* representable number, ties going to the even neighbour.  Here the       *)
(* representable numbers are the multiples of 2^(-FloatBits), the spacing  *)
(* of the machine numbers at the magnitude of the value function.          *)
(***************************************************************************)
\* binary digits a machine number keeps after the point
FloatBits == 3

\* the distance between neighbouring machine numbers
Ulp == Rat(1, 2 ^ FloatBits)

\* the nearest machine number, ties to even
Round(x) ==
    LET t  == RMul(x, Rat(2 ^ FloatBits, 1))
        lo == t[1] \div t[2]
        r2 == 2 * (t[1] - lo * t[2])
        k  == IF r2 < t[2] THEN lo
              ELSE IF r2 > t[2] THEN lo + 1
              ELSE IF lo % 2 = 0 THEN lo ELSE lo + 1
    IN Rat(k, 2 ^ FloatBits)

\* mutant: the continuation value is not discounted
FloatEntryUndiscounted(i, j, Vold) == Round(RAdd(Round(e[i][j]), Vold[j]))

\* e[i, j] + betafirm * V[j] on stored numbers: the product is rounded, then
\* the sum
FloatEntry(i, j, Vold) ==
    Round(RAdd(Round(e[i][j]), Round(RMul(Round(betafirm), Vold[j]))))

FloatVmat(Vold) ==
    [i \in DOMAIN kvec |-> [j \in DOMAIN kvec |-> FloatEntry(i, j, Vold)]]

\* a pass computed in machine arithmetic
IterateFloat == Pass(FloatVmat(V))

FloatNext ==
    \/ IterateFloat /\ UNCHANGED <<guessVars, simVars, gridVars, acVars>>
    \/ Exit /\ UNCHANGED <<guessVars, simVars, gridVars, acVars>>
    \/ Policy /\ UNCHANGED <<guessVars, simVars, gridVars, acVars>>

SpecFloat == Init /\ [][FloatNext]_vars

(***************************************************************************)
(* The capital-grid cell run on its own, one statement or loop pass at a   *)
(* time, for any density dens.  The cell tests none of the values it       *)
(* reads, so the inputs include output shares with alpha_k + alpha_l >= 1. *)
(***************************************************************************)
GridDeltaVals == {<<1, 2>>, <<3, 4>>}

\* the densities for which (1 - delta) ** (1 / dens) is a rational number
DensFor(dl) == IF dl = <<3, 4>> THEN {1, 2} ELSE {1}

GridGiven ==
    { [alpha_k |-> alpha_k, alpha_l |-> alpha_l, delta |-> dl,
       r |-> rw[1], w |-> rw[2]] : dl \in GridDeltaVals, rw \in RWVals }
    \cup
    { [alpha_k |-> One, alpha_l |-> alpha_l, delta |-> <<1, 2>>,
       r |-> One, w |-> wg] : wg \in {One, Two} }

GridLbVals == LbVals \cup {<<1, 3>>, <<3, 8>>}

\* the parameter cells have run; the grid cell is about to
GridInit ==
    /\ given \in GridGiven
    /\ dens \in DensFor(given.delta)
    /\ lb_k \in GridLbVals
    /\ kstar = Zero
    /\ ub_k = Zero
    /\ numb = 0
    /\ K = <<>>
    /\ j_K = 0
    /\ pcG = "cell"

\* the statements above the for loop: kstar, kbar, ub_k, krat, numb, K
Bounds ==
    /\ pcG = "cell"
    /\ kstar' = KstarOf(given.alpha_k, given.alpha_l, Betafirm(given.r),
                        given.delta, given.w)
    /\ ub_k' = RMul(Two, kstar')
    /\ numb' = Numb(lb_k, ub_k', given.delta)
    /\ K' = [j \in 0..(numb' * dens - 1) |-> Zero]
    /\ pcG' = "for"
    /\ UNCHANGED <<given, dens, lb_k, j_K>>
    /\ UNCHANGED <<vfiVars, guessVars, simVars, acVars>>

\* one pass of the for loop
FillK ==
    /\ pcG = "for"
    /\ j_K < numb * dens
    /\ K' = [K EXCEPT ![j_K] = KEntry(ub_k, given.delta, dens, j_K)]
    /\ j_K' = j_K + 1
    /\ UNCHANGED <<given, dens, kstar, lb_k, ub_k, numb, pcG>>
    /\ UNCHANGED <<vfiVars, guessVars, simVars, acVars>>

\* kvec = K[::-1]; sizek = kvec.shape[0]
Reverse ==
    /\ pcG = "for"
    /\ j_K >= numb * dens
    /\ kvec' = Reversed(K)
    /\ pcG' = "done"
    /\ UNCHANGED <<given, dens, kstar, lb_k, ub_k, numb, K, j_K>>
    /\ UNCHANGED <<delta, psi, betafirm, op, e, VFtol, VFdist, VFmaxiter, VFiter,
                   V, TV, Vmat, Vstore, PF, obj, report, optK, optI, pc>>
    /\ UNCHANGED <<guessVars, simVars, acVars>>

GridStart == VFIIdle /\ SimIdle /\ ACIdle /\ GridInit

GridNext == Bounds \/ FillK \/ Reverse

SpecGrid == GridStart /\ [][GridNext]_vars

(***************************************************************************)
(* The loop cell run a second time on the same grid, cash flows, discount  *)
(* factor, tolerance and cap, from a constant non-zero initial guess.      *)
(***************************************************************************)
GuessVals == {<<16, 1>>, <<32, 1>>}

GuessInit ==
    /\ Setup({GuessIterCap})
    /\ \E c \in GuessVals : W = [i \in DOMAIN kvec |-> c]
    /\ Wdist = <<7, 1>>
    /\ Witer = 1
    /\ pcW = "while"
    /\ SimIdle
    /\ GridIdle
    /\ ACIdle

GuessIterate ==
    /\ pcW = "while"
    /\ WhileCond(Wdist, Witer)
    /\ W' = [i \in DOMAIN kvec |-> RowMax(NewVmat(W)[i])]
    /\ Wdist' = SupDist(W', W)
    /\ Witer' = Witer + 1
    /\ pcW' = pcW
    /\ UNCHANGED <<vfiVars, simVars, gridVars, acVars>>

GuessExit ==
    /\ pcW = "while"
    /\ ~WhileCond(Wdist, Witer)
    /\ pcW' = "done"
    /\ UNCHANGED <<W, Wdist, Witer>>
    /\ UNCHANGED <<vfiVars, simVars, gridVars, acVars>>

GuessNext ==
    \/ Iterate /\ UNCHANGED <<guessVars, simVars, gridVars, acVars>>
    \/ Exit /\ UNCHANGED <<guessVars, simVars, gridVars, acVars>>
    \/ GuessIterate
    \/ GuessExit

SpecGuess == GuessInit /\ [][GuessNext]_vars


(***************************************************************************)
(* ApproxAR.ipynb: sim_markov and its call sites.  Probabilities and draws *)
(* are rationals.  chain[c][k] is the probability of moving from state c   *)
(* to state k; pi is the matrix the call site hands to sim_markov.         *)
(***************************************************************************)
Sixteenths(rows) ==
    [c \in DOMAIN rows |-> [k \in DOMAIN rows[c] |-> Rat(rows[c][k], 16)]]

Row2(a, b) == (0 :> a) @@ (1 :> b)
Row3(a, b, c) == (0 :> a) @@ (1 :> b) @@ (2 :> c)

\* matrices the quadrature of the Adda-Cooper cell can produce: rows that sum
\* to 1, and rows that fall short of 1 by the quadrature error
QuadratureChains ==
    { Sixteenths(Row2(Row2(12, 4), Row2(4, 12))),
      Sixteenths(Row2(Row2(12, 3), Row2(4, 12))),
      Sixteenths(Row3(Row3(10, 5, 1), Row3(3, 10, 3), Row3(0, 6, 10))),
      Sixteenths(Row3(Row3(10, 4, 1), Row3(3, 10, 3), Row3(1, 5, 10))) }

\* ar1.rouwen: the 2-state matrix [[p, 1-p], [1-q, q]] with p = q = (1+rho)/2,
\* expanded one state at a time by the sum of four zero-padded shifted copies
\* weighted p, 1-p, 1-q, q, the interior rows divided by 2
RECURSIVE RouwenMatrix(_, _)
RouwenMatrix(p, n) ==
    IF n = 2
    THEN Row2(Row2(p, RSub(One, p)), Row2(RSub(One, p), p))
    ELSE LET T == RouwenMatrix(p, n - 1)
             q == p
             at(r, c) == IF r \in 0..(n - 2) /\ c \in 0..(n - 2)
                         THEN T[r][c] ELSE Zero
             sum(r, c) == RAdd(RAdd(RMul(p, at(r, c)),
                                    RMul(RSub(One, p), at(r, c - 1))),
                               RAdd(RMul(RSub(One, q), at(r - 1, c)),
                                    RMul(q, at(r - 1, c - 1))))
         IN [r \in 0..(n - 1) |-> [c \in 0..(n - 1) |->
                IF r \in 1..(n - 2) THEN RDiv(sum(r, c), Two) ELSE sum(r, c)]]

rouwen(rho, n) == RouwenMatrix(RDiv(RAdd(One, rho), Two), n)

RhoVals == {<<0, 1>>, <<1, 2>>}

Transpose(m) == [r \in DOMAIN m |-> [c \in DOMAIN m |-> m[c][r]]]

\* an evenly spaced grid of n points centred at 0
Grid(n) == [k \in 0..(n - 1) |-> Rat(2 * k - (n - 1), 2)]

\* draws of np.random.uniform, which lie in [0, 1): zero, draws equal to a
\* partial sum of some row (1/4, 5/8), draws strictly between the partial sums
\* (11/32, 27/32), and a draw above a row sum that falls short of 1 (31/32)
UVals == {<<0, 1>>, <<1, 4>>, <<11, 32>>, <<5, 8>>, <<27, 32>>, <<31, 32>>}

\* the matrix handed to sim_markov at each call site
PassedAt(line, mat) ==
    IF line = "line 277" THEN mat ELSE Transpose(mat)

Ceil(q) == -((-q[1]) \div q[2])

\* mutant: a call resumes from the state the previous call ended in
ResumeIndex(n, last) == last

\* oldind = int(np.ceil((N - 1) / 2)): every call starts from the median index,
\* wherever a previous call ended
StartIndex(n, last) == Ceil(Rat(n - 1, 2))

SimInitFrom(draws) ==
    /\ \/ site = "line 242" /\ chain \in QuadratureChains
       \/ site = "line 277" /\ \E rho \in RhoVals, n \in 2..3 : chain = rouwen(rho, n)
    /\ pi = PassedAt(site, chain)
    /\ z_grid = Grid(Cardinality(DOMAIN chain))
    /\ num_draws \in 1..DrawsCap
    /\ u \in [0..(num_draws - 1) -> draws]
    /\ oldind = StartIndex(Cardinality(DOMAIN z_grid), 0)
    /\ z_discrete = [t \in {0} |-> z_grid[oldind]]
    /\ i_sim = 1
    /\ ind = 0
    /\ sum_p = Zero
    /\ pcS = "for"
    /\ run = 1
    /\ first_u = <<>>
    /\ first_path = <<>>

SimInit == SimInitFrom(UVals)

SimN == Cardinality(DOMAIN z_grid)

\* the for loop takes its next i and resets sum_p and ind
ForStep ==
    /\ pcS = "for"
    /\ i_sim < num_draws
    /\ sum_p' = Zero
    /\ ind' = 0
    /\ pcS' = "while"
    /\ UNCHANGED <<site, chain, z_grid, pi, num_draws, u, z_discrete, oldind,
                   i_sim, run, first_u, first_path>>

\* one pass of the inner while loop
Accumulate ==
    /\ pcS = "while"
    /\ RLt(sum_p, u[i_sim])
    /\ IF ind \in 0..(SimN - 1)
       THEN /\ sum_p' = RAdd(sum_p, pi[ind][oldind])
            /\ ind' = ind + 1
            /\ pcS' = pcS
       ELSE \* pi[ind, oldind] is out of bounds
            /\ pcS' = "IndexError"
            /\ UNCHANGED <<sum_p, ind>>
    /\ UNCHANGED <<site, chain, z_grid, pi, num_draws, u, z_discrete, oldind,
                   i_sim, run, first_u, first_path>>

Selected == IF ind > 0 THEN ind - 1 ELSE ind

\* the inner loop has ended: the state is recorded and becomes the current one
Select ==
    /\ pcS = "while"
    /\ ~RLt(sum_p, u[i_sim])
    /\ ind' = Selected
    /\ z_discrete' = (i_sim :> z_grid[ind']) @@ z_discrete
    /\ oldind' = ind'
    /\ i_sim' = i_sim + 1
    /\ pcS' = "for"
    /\ UNCHANGED <<site, chain, z_grid, pi, num_draws, u, sum_p, run, first_u,
                   first_path>>

Return ==
    /\ pcS = "for"
    /\ i_sim >= num_draws
    /\ pcS' = "returned"
    /\ UNCHANGED <<site, chain, z_grid, pi, num_draws, u, z_discrete, oldind,
                   ind, sum_p, i_sim, run, first_u, first_path>>

SimStart == VFIIdle /\ GridIdle /\ ACIdle /\ SimInit

SimNext ==
    \/ ForStep /\ UNCHANGED <<vfiVars, guessVars, gridVars, acVars>>
    \/ Accumulate /\ UNCHANGED <<vfiVars, guessVars, gridVars, acVars>>
    \/ Select /\ UNCHANGED <<vfiVars, guessVars, gridVars, acVars>>
    \/ Return /\ UNCHANGED <<vfiVars, guessVars, gridVars, acVars>>

SpecSim == SimStart /\ [][SimNext]_vars

(***************************************************************************)
(* sim_markov called a second time with the arguments of the first call.   *)
(* The function takes no seed and never seeds the generator: line 218      *)
(* draws again from NumPy's global generator, in whatever state the first  *)
(* call left it.                                                           *)
(***************************************************************************)
\* the draws explored when the call is repeated
RerunUVals == {<<0, 1>>, <<11, 32>>, <<27, 32>>}

CallAgain ==
    /\ pcS = "returned"
    /\ run = 1
    /\ run' = 2
    /\ first_u' = u
    /\ first_path' = z_discrete
    /\ u' \in [0..(num_draws - 1) -> RerunUVals]
    /\ oldind' = StartIndex(SimN, oldind)
    /\ z_discrete' = [t \in {0} |-> z_grid[oldind']]
    /\ i_sim' = 1
    /\ ind' = 0
    /\ sum_p' = Zero
    /\ pcS' = "for"
    /\ UNCHANGED <<site, chain, z_grid, pi, num_draws>>

RerunNext ==
    \/ SimNext
    \/ CallAgain /\ UNCHANGED <<vfiVars, guessVars, gridVars, acVars>>

RerunStart == VFIIdle /\ GridIdle /\ ACIdle /\ SimInitFrom(RerunUVals)

SpecRerun == RerunStart /\ [][RerunNext]_vars

(***************************************************************************)
(* ApproxAR.ipynb: the cell that fills the Adda-Cooper transition matrix,  *)
(* pi[i, j] = N / sqrt(2 pi sigma_z^2) * quad(integrand, z_cutoffs[i],     *)
(* z_cutoffs[i + 1], args = (.., z_cutoffs[j], z_cutoffs[j + 1]))[0].      *)
(* The library functions are replaced by rational stand-ins that keep what *)
(* the cell relies on.  norm.ppf(i / N) gives the N-quantiles of a         *)
(* symmetric law, -inf and inf at the ends.  norm.cdf is a non-decreasing  *)
(* step function from 0 at -inf to 1 at inf.  exp(-y) is a decreasing step *)
(* function.  integrate.quad is a weighted sum of the integrand at nodes   *)
(* inside the interval, off by a relative error drawn from QuadRelErrVals; *)
(* the nodes and weights are such that the kernel integrates to            *)
(* sqrt(2 pi sigma_z^2) / N over each interval, as it does over the        *)
(* quantiles of the normal law.                                            *)
(***************************************************************************)
NVals == {2, 3}
ACRhoVals == {<<0, 1>>, <<4, 5>>}
MuVals == {<<0, 1>>, <<1, 1>>}
SigmaEpsVals == {<<1, 2>>, <<1, 1>>}
QuadRelErrVals == {<<-1, 16>>, <<0, 1>>, <<1, 16>>}

\* sigma_z = sigma_eps / ((1 - rho ** 2) ** (1 / 2))
SigmaZ(rho, sigma_eps) ==
    RDiv(sigma_eps, Power(RSub(One, RPow(rho, 2)), <<1, 2>>))

\* -inf and inf, written as fractions over 0
NegInf == <<-1, 0>>
PosInf == <<1, 0>>

\* norm.ppf(i / n)
Quantile(i, n) ==
    IF i = 0 THEN NegInf
    ELSE IF i = n THEN PosInf
    ELSE IF n = 2 THEN Zero
    ELSE IF i = 1 THEN <<-1, 2>> ELSE <<1, 2>>

\* z_cutoffs[i] = sigma_z * norm.ppf(i / N) + mu
ZCutoff(a, i) ==
    LET q == Quantile(i, a.N)
    IN IF q \in {NegInf, PosInf} THEN q ELSE RAdd(RMul(a.sigma_z, q), a.mu)

\* np.exp(-y) for y >= 0
ExpNeg(y) ==
    IF RLt(y, <<1, 16>>) THEN One
    ELSE IF RLt(y, <<1, 4>>) THEN <<7, 8>>
    ELSE IF RLt(y, One) THEN <<5, 8>>
    ELSE IF RLt(y, <<3, 2>>) THEN <<5, 16>>
    ELSE <<1, 8>>

\* norm.cdf
Phi(t) ==
    IF t = NegInf THEN Zero
    ELSE IF t = PosInf THEN One
    ELSE IF RLt(t, <<-2, 1>>) THEN Zero
    ELSE IF RLt(t, <<-1, 1>>) THEN <<1, 16>>
    ELSE IF RLt(t, Zero) THEN <<5, 16>>
    ELSE IF RLt(t, One) THEN <<11, 16>>
    ELSE IF RLt(t, Two) THEN <<15, 16>>
    ELSE One

\* (z_j - (mu * (1 - rho)) - (rho * x)) / sigma_eps, for sigma_eps > 0
CdfArg(a, c, x) ==
    IF c \in {NegInf, PosInf} THEN c
    ELSE RDiv(RSub(RSub(c, RMul(a.mu, RSub(One, a.rho))), RMul(a.rho, x)),
              a.sigma_eps)

\* mutant: the two normal cdf terms are taken at the same cut-off
IntegrandSameCutoff(a, x, z_j, z_jp1) ==
    RMul(ExpNeg(RDiv(RPow(RSub(x, a.mu), 2), RMul(Two, RPow(a.sigma_z, 2)))),
         RSub(Phi(CdfArg(a, z_j, x)), Phi(CdfArg(a, z_j, x))))

integrand(a, x, z_j, z_jp1) ==
    RMul(ExpNeg(RDiv(RPow(RSub(x, a.mu), 2), RMul(Two, RPow(a.sigma_z, 2)))),
         RSub(Phi(CdfArg(a, z_jp1, x)), Phi(CdfArg(a, z_j, x))))

\* the nodes of quad between the quantiles i and i + 1, in units of sigma_z
\* around mu, each with its weight
QuadNodes(i, n) ==
    IF n = 2
    THEN IF i = 0 THEN << << <<-3, 2>>, Two >>, << <<-1, 2>>, One >> >>
         ELSE << << <<1, 2>>, One >>, << <<3, 2>>, Two >> >>
    ELSE IF i = 0 THEN << << <<-2, 1>>, <<3, 1>> >>, << <<-1, 1>>, One >> >>
         ELSE IF i = 1
              THEN << << <<-1, 4>>, <<1, 2>> >>, << <<1, 4>>, <<1, 2>> >> >>
              ELSE << << One, One >>, << Two, <<3, 1>> >> >>

RECURSIVE SeqSum(_)
SeqSum(sq) == IF sq = <<>> THEN Zero ELSE RAdd(Head(sq), SeqSum(Tail(sq)))

\* integrate.quad(integrand, z_cutoffs[i], z_cutoffs[i + 1], args)[0], off by
\* the relative error err
quad(a, i, j, err) ==
    LET nodes == QuadNodes(i, a.N)
        term(nw) == RMul(RMul(a.sigma_z, nw[2]),
                         integrand(a, RAdd(a.mu, RMul(a.sigma_z, nw[1])),
                                   ZCutoff(a, j), ZCutoff(a, j + 1)))
    IN RMul(SeqSum([k \in 1..Len(nodes) |-> term(nodes[k])]), RAdd(One, err))

\* np.sqrt(2 * np.pi): the integral of exp(-t^2 / 2) under the stand-ins
SqrtTwoPi == <<3, 1>>

\* mutant: the factor N is left out
PiEntryWithoutN(a, i, j, err) ==
    RMul(RDiv(One, RMul(SqrtTwoPi, a.sigma_z)), quad(a, i, j, err))

\* pi[i, j] = (N / np.sqrt(2 * np.pi * sigma_z ** 2)) * results[0]
PiEntry(a, i, j, err) ==
    RMul(RDiv(<<a.N, 1>>, RMul(SqrtTwoPi, a.sigma_z)), quad(a, i, j, err))

\* an entry of np.empty((N, N)) that has not been written
Unwritten == <<>>

ACInit ==
    /\ \E n \in NVals, rh \in ACRhoVals, m \in MuVals, se \in SigmaEpsVals :
          ar = [N |-> n, rho |-> rh, mu |-> m, sigma_eps |-> se,
                sigma_z |-> SigmaZ(rh, se)]
    /\ piAC = [i \in 0..(ar.N - 1) |-> [j \in 0..(ar.N - 1) |-> Unwritten]]
    /\ i_ac = 0
    /\ j_ac = 0
    /\ pcA = "for"

\* one pass of the inner for loop
QuadEntry ==
    /\ pcA = "for"
    /\ i_ac < ar.N
    /\ \E err \in QuadRelErrVals :
          piAC' = [piAC EXCEPT ![i_ac][j_ac] = PiEntry(ar, i_ac, j_ac, err)]
    /\ IF j_ac + 1 < ar.N
       THEN j_ac' = j_ac + 1 /\ i_ac' = i_ac
       ELSE j_ac' = 0 /\ i_ac' = i_ac + 1
    /\ UNCHANGED <<ar, pcA>>
    /\ UNCHANGED <<vfiVars, guessVars, simVars, gridVars>>

\* the outer loop has ended
ACDone ==
    /\ pcA = "for"
    /\ i_ac >= ar.N
    /\ pcA' = "done"
    /\ UNCHANGED <<ar, piAC, i_ac, j_ac>>
    /\ UNCHANGED <<vfiVars, guessVars, simVars, gridVars>>

ACStart == VFIIdle /\ SimIdle /\ GridIdle /\ ACInit

ACNext == QuadEntry \/ ACDone

SpecAC == ACStart /\ [][ACNext]_vars

(***************************************************************************)
(* Claims about the value-function iteration.                              *)
(***************************************************************************)
\* the candidate value of choosing grid index j at grid index i, from the
\* value function TV the last pass started from
Candidate(i, j) == RAdd(e[i][j], RMul(betafirm, TV[j]))

Updates == VFiter - 1

\* C1: after every pass of the loop, for every grid index i the new value V[i]
\* is the maximum over j of e[i][j] + beta * V_old[j], PF[i] is the lowest j
\* attaining it, and so V[i] = e[i][PF[i]] + beta * V_old[PF[i]].
C1_BellmanMaxFirstArgmax ==
    Updates >= 1 =>
        \A i \in DOMAIN kvec :
            /\ PF[i] \in DOMAIN kvec
            /\ V[i] = Candidate(i, PF[i])
            /\ \A j \in DOMAIN kvec : RLe(Candidate(i, j), V[i])
            /\ \A j \in DOMAIN kvec : j < PF[i] => RLt(Candidate(i, j), V[i])

\* a second or later pass has run on a non-zero value function and a row's
\* maximum is attained away from index 0
C1_Witness ==
    /\ Updates >= 2
    /\ \E i \in DOMAIN kvec : TV[i] # Zero
    /\ \E i \in DOMAIN kvec : PF[i] > 0


Zeros == [i \in DOMAIN kvec |-> Zero]

\* C2: the loop stops at whichever comes first, a pass whose sup-norm distance
\* is <= tol or the point where the number of Bellman updates reaches maxIter,
\* so min(first converging pass, maxIter) updates have been performed at exit.
C2_StopsAtTolOrAfterMaxIterUpdates ==
    pc = "done" =>
        \/ Updates >= 1 /\ RLe(VFdist, VFtol) /\ Updates <= VFmaxiter
        \/ Updates = VFmaxiter

\* C3: at exit non-convergence is reported exactly when the iteration cap was
\* reached and no computed distance is <= tol; a last computed distance <= tol
\* is reported as convergence, also on the last permitted pass.
C3_NonConvergenceIffCapAndDistAboveTol ==
    pc = "done" =>
        (report = "did not converge"
            <=> (VFiter >= VFmaxiter /\ (Updates = 0 \/ RLt(VFtol, VFdist))))

\* C4: with maxIter = 0 no Bellman update is performed, the value function at
\* exit is the initial guess of zeros, and the outcome is reported as not
\* converged.
C4_ZeroMaxIterKeepsGuess ==
    (pc = "done" /\ VFmaxiter = 0) =>
        /\ Updates = 0
        /\ V = Zeros
        /\ report = "did not converge"

\* the loop has exited under maxIter = 0, with a tolerance above the initial
\* distance of 7.0
C4_Witness == pc = "done" /\ VFmaxiter = 0 /\ RLt(<<7, 1>>, VFtol)

\* C5: on every exit from the loop (stated for maxIter >= 1) a policy index PF[i] in 0..sizek-1 is
\* defined for every grid index i, and it is the argmax of row i of the final
\* matrix Vmat from which V was taken.
C5_PolicyDefinedAtEveryExit ==
    (pc = "done" /\ VFmaxiter >= 1) =>
        /\ PF # Unbound
        /\ \A i \in DOMAIN kvec :
              /\ PF[i] \in DOMAIN kvec
              /\ V[i] = Vmat[i][PF[i]]
              /\ \A j \in DOMAIN kvec : RLe(Vmat[i][j], Vmat[i][PF[i]])

\* the claim's premise: operating profit is increasing and concave over the grid
OpSlope(i) == RDiv(RSub(op[i + 1], op[i]), RSub(kvec[i + 1], kvec[i]))

OpConcave ==
    /\ \A i \in DOMAIN kvec : (i + 1) \in DOMAIN kvec => RLt(op[i], op[i + 1])
    /\ \A i \in DOMAIN kvec :
          (i + 2) \in DOMAIN kvec => RLe(OpSlope(i + 1), OpSlope(i))

\* C7: with the firm's payoff (concave operating profit, convex adjustment
\* cost) the policy of every pass is monotone over the full grid: i1 < i2
\* implies PF[i1] <= PF[i2], and optK = kvec[PF] is non-decreasing in k.
C7_PolicyMonotone ==
    OpConcave =>
        /\ Updates >= 1 =>
              \A i1, i2 \in DOMAIN kvec : i1 < i2 => PF[i1] <= PF[i2]
        /\ pc = "end" =>
              \A i1, i2 \in DOMAIN kvec : i1 < i2 => RLe(optK[i1], optK[i2])

\* the policy cell has run on a policy that is not constant over the grid
C7_Witness ==
    /\ pc = "end"
    /\ OpConcave
    /\ psi # Zero
    /\ \E i1, i2 \in DOMAIN kvec : i1 < i2 /\ RLt(optK[i1], optK[i2])


\* both runs have left the loop after a pass whose distance is <= tol
BothConverged ==
    /\ pc = "done" /\ Updates >= 1 /\ RLe(VFdist, VFtol)
    /\ pcW = "done" /\ Witer >= 2 /\ RLe(Wdist, VFtol)

\* C6 as stated: the value functions reached from the two initial guesses
\* agree within tol at every grid point.
C6_GuessesAgreeWithinTol ==
    BothConverged =>
        \A i \in DOMAIN kvec : RLe(RAbs(RSub(V[i], W[i])), VFtol)

\* C6 as amended: the value functions reached from the two initial guesses
\* agree within 2 * beta / (1 - beta) * tol at every grid point.
C6_GuessesAgreeWithinContractionBound ==
    BothConverged =>
        \A i \in DOMAIN kvec :
            RLe(RAbs(RSub(V[i], W[i])),
                RMul(RDiv(RMul(Two, betafirm), RSub(One, betafirm)), VFtol))

\* both runs have converged, each after at least two passes, to value
\* functions that differ
C6_Witness ==
    /\ BothConverged
    /\ Updates >= 2
    /\ Witer >= 3
    /\ V # W


(***************************************************************************)
(* Claims about the Markov-chain simulator.                                *)
(***************************************************************************)
RECURSIVE CumSum(_, _)
CumSum(row, k) == IF k < 0 THEN Zero ELSE RAdd(CumSum(row, k - 1), row[k])

\* the index of a grid value (the grid is strictly increasing)
IndexOf(v) == CHOOSE k \in DOMAIN z_grid : z_grid[k] = v

\* the steps whose state has been recorded
StepsDone == 1..(i_sim - 1)

CurAt(t) == IndexOf(z_discrete[t - 1])
NextAt(t) == IndexOf(z_discrete[t])

\* C8: the simulator never reads outside the transition matrix: when the
\* cumulative sum of the current state's probabilities never reaches the draw,
\* the next index is clamped to N-1.
C8_NeverReadsOutsideMatrix ==
    /\ pcS # "IndexError"
    /\ \A t \in StepsDone :
          RLt(CumSum(chain[CurAt(t)], SimN - 1), u[t]) => NextAt(t) = SimN - 1

\* C9: at every step the next index is the smallest k whose cumulative sum
\* over 0..k of the current state's row chain[cur] exceeds the draw, at every
\* call site.
C9_NextIsSmallestIndexExceedingDraw ==
    \A t \in StepsDone :
        /\ RLt(u[t], CumSum(chain[CurAt(t)], NextAt(t)))
        /\ \A k \in 0..(NextAt(t) - 1) : ~RLt(u[t], CumSum(chain[CurAt(t)], k))

\* C10: the simulator returns a path of exactly num_draws entries, the first
\* the grid value at index ceil((N-1)/2), every later one a value of the grid.
C10_ReturnsPathOfNumDraws ==
    pcS \notin {"not called", "for", "while"} =>
        /\ pcS = "returned"
        /\ DOMAIN z_discrete = 0..(num_draws - 1)
        /\ z_discrete[0] = z_grid[Ceil(Rat(SimN - 1, 2))]
        /\ \A t \in DOMAIN z_discrete : \E k \in DOMAIN z_grid : z_discrete[t] = z_grid[k]

InvalidFirm(g) ==
    \/ RLe(g.delta, Zero)
    \/ RLe(g.w, Zero)
    \/ RLe(One, RAdd(g.alpha_k, g.alpha_l))

\* C12: with non-positive delta or w, or alpha_k + alpha_l >= 1, the firm
\* problem is rejected with an InvalidParameterError before anything is
\* computed, and no capital grid is produced.
C12_InvalidParametersRejected ==
    (pcG \notin {"not run", "cell"} /\ InvalidFirm(given)) =>
        /\ pcG = "InvalidParameterError"
        /\ K = <<>>
        /\ kvec = <<>>

GridDone == pcG = "done"

\* C14: the capital grid is strictly positive and strictly increasing, and
\* for every index i with i + dens inside the grid kvec[i] = (1 - delta) *
\* kvec[i + dens].
C14_GridGeometric ==
    GridDone =>
        /\ \A i \in DOMAIN kvec : RLt(Zero, kvec[i])
        /\ \A i \in DOMAIN kvec :
              (i + 1) \in DOMAIN kvec => RLt(kvec[i], kvec[i + 1])
        /\ \A i \in DOMAIN kvec :
              (i + dens) \in DOMAIN kvec =>
                  kvec[i] = RMul(RSub(One, given.delta), kvec[i + dens])

\* a grid of density 2 with at least four points has been built
C14_Witness == GridDone /\ dens = 2 /\ Cardinality(DOMAIN kvec) >= 4

\* C15 as stated: every grid point lies between lb_k and ub_k inclusive and
\* the largest grid point equals ub_k.
C15_GridWithinBounds ==
    (GridDone /\ RLt(Zero, lb_k) /\ RLt(lb_k, ub_k)) =>
        /\ \A i \in DOMAIN kvec : RLe(lb_k, kvec[i]) /\ RLe(kvec[i], ub_k)
        /\ kvec[Cardinality(DOMAIN kvec) - 1] = ub_k

\* C15 as amended: every grid point lies above lb_k * (1 - delta) **
\* ((dens - 1) / dens), which is lb_k itself when dens = 1, and at or below
\* ub_k, and the largest grid point equals ub_k.
C15_GridWithinSlackenedBounds ==
    (GridDone /\ RLt(Zero, lb_k) /\ RLt(lb_k, ub_k)) =>
        /\ \A i \in DOMAIN kvec :
              /\ RLt(RMul(lb_k, Power(RSub(One, given.delta),
                                      Rat(dens - 1, dens))),
                     kvec[i])
              /\ RLe(kvec[i], ub_k)
        /\ kvec[Cardinality(DOMAIN kvec) - 1] = ub_k

\* a grid of density 2 has been built whose smallest point is below lb_k
C15_Witness ==
    /\ GridDone /\ dens = 2
    /\ RLt(Zero, lb_k) /\ RLt(lb_k, ub_k)
    /\ RLt(kvec[0], lb_k)

(***************************************************************************)
(* Claims about the Adda-Cooper transition matrix.                         *)
(***************************************************************************)
\* the largest relative error of a quadrature
QuadTol == <<1, 16>>

RowSum(row) == CumSum(row, Cardinality(DOMAIN row) - 1)

VOld == [i \in DOMAIN kvec |-> Vstore[i][VFiter - 1]]

\* C16: after every pass, VFdist is the sup-norm max_i |V_new[i] - V_old[i]|
\* between the value function the pass produced and the one it started from;
\* TV still holds the pre-pass values when the distance is taken (TV does not
\* name the array V is bound to after the update), so VFdist is 0 only when
\* the two value functions are equal.
C16_DistIsSupNormToSavedCopy ==
    (Updates >= 1 /\ pc # "IndexError") =>
        /\ obj.TV # obj.V
        /\ TV = VOld
        /\ \A i \in DOMAIN kvec : RLe(RAbs(RSub(V[i], VOld[i])), VFdist)
        /\ \E i \in DOMAIN kvec : VFdist = RAbs(RSub(V[i], VOld[i]))
        /\ (VFdist = Zero => \A i \in DOMAIN kvec : V[i] = VOld[i])

\* a second or later pass has changed a non-zero value function
C16_Witness ==
    /\ Updates >= 2
    /\ pc = "while"
    /\ RLt(Zero, VFdist)
    /\ \E i \in DOMAIN kvec : TV[i] # Zero /\ V[i] # TV[i]

\* --------------------------------------------------------------------------
\* the stored history (lines 263, 288)

Column(t) == [i \in DOMAIN kvec |-> Vstore[i][t]]

\* one application of the Bellman operator to a value function
Bellman(Vold) == [i \in DOMAIN kvec |-> RowMax(NewVmat(Vold)[i])]

\* C17: Vstore (sizek rows, VFmaxiter columns) is always written in bounds:
\* whenever a pass is about to run, 0 <= VFiter <= VFmaxiter - 1; column t,
\* for every pass t = 1..VFiter-1 that has run, holds the value function that
\* pass started from; column 0 and every column >= VFiter are still zero.
C17_HistoryInBoundsAndShifted ==
    /\ pc # "IndexError"
    /\ (pc = "while" /\ LoopCond) => VFiter \in 0..(VFmaxiter - 1)
    /\ \A i \in DOMAIN kvec : DOMAIN Vstore[i] = 0..(VFmaxiter - 1)
    /\ \A t \in 0..(VFmaxiter - 1) :
          /\ (t = 0 \/ t >= VFiter) => Column(t) = Zeros
          /\ (t = 1 /\ t < VFiter) => Column(t) = Zeros
          /\ (t >= 2 /\ t < VFiter) => Column(t) = Bellman(Column(t - 1))
    /\ Updates >= 1 => V = Bellman(Column(VFiter - 1))

\* the loop has ended by tolerance after two or more passes: a non-zero value
\* function is stored and a column past the last pass is left
C17_Witness ==
    /\ pc = "done"
    /\ Updates >= 2
    /\ VFiter < VFmaxiter
    /\ Column(VFiter - 1) # Zeros

\* --------------------------------------------------------------------------
\* the states the simulated path visits (lines 226-236)

\* C18: the simulator never moves to a state that has zero transition
\* probability from the current state: at every recorded step the chain's
\* probability of the move taken, chain[cur][next], is positive.
C18_NeverMovesWithZeroProbability ==
    \A t \in StepsDone : RLt(Zero, chain[CurAt(t)][NextAt(t)])

\* --------------------------------------------------------------------------
\* successive distances (lines 283-294)

\* the distance the pass before the last one computed
PrevDist == SupDist(Column(VFiter - 1), Column(VFiter - 2))

=============================================================================
